---- MODULE Spec2Model ----
(***************************************************************************)
(* Model of headposeimg.c: the main() of the head-pose sample, which       *)
(* parses the command line, creates a pose session and (optionally) a      *)
(* face-detection session, and runs every image through the single-stage   *)
(* or the two-stage pipeline.  The inference provider (VAAL) is the        *)
(* environment: each of its calls succeeds or reports an error.            *)
(*                                                                         *)
(* Thresholds are fixed-point numbers in tenths (0.5 is 5, 1.0 is 10).     *)
(* Clock readings (start, load_ns, inference_ns, pose_ns) and the decoded  *)
(* angles are not modelled: no step of main branches on them.              *)
(* calloc is taken to succeed (main never tests its result), and atoi and  *)
(* atof are taken to return finite values.                                 *)
(***************************************************************************)
EXTENDS Integers, Sequences, FiniteSets, TLC

\* ---------------------------------------------------------------- bounds
MaxOpts == 2        \* options on the command line
MaxImages == 2      \* image paths on the command line
MaxFaces == 2       \* faces the detector can find in one image

\* ------------------------------------------------------ program constants
DefaultMaxDetection == 25   \* int max_detection = 25
DefaultScoreThr == 5        \* float score_thr = 0.5f
DefaultIouThr == 5          \* float iou_thr = 0.5f

\* Values given on the command line.
NormNames == {"raw", "signed", "unsigned", "whitening", "imagenet"}
NormArgs == NormNames \cup {"bogus"}
ThrArgs == {-3, 7, 17}              \* atof(optarg) in tenths: -0.3, 0.7, 1.7
CountArgs == (-1) .. MaxFaces       \* atoi(optarg)
EngineArgs == {"cpu"}

VARIABLES
    pc,             \* position in main
    optsLeft,       \* options getopt_long has not returned yet
    argModel,       \* argv[optind] # NULL after the options
    nimages,        \* argc - optind after the model was taken
    max_detection, score_thr, iou_thr, engine, norm, face_detect,
    heap,           \* boxes, orientations, roi: "unalloc" | "alloc" | "freed"
    pose_ctx,       \* "null" | "live" | "released"
    faces_ctx,      \* "null" | "live" | "released"
    poseParams,     \* parameters set on the pose session
    facesParams,    \* parameters set on the face-detection session
    i,              \* image loop index, 1..nimages
    w, h,           \* resolution read for the current image
    num_boxes, boxes, j, roi,
    exitCode,       \* -1 while running
    stderr,         \* the diagnostic written before a failure exit
    stdout,         \* result lines printed so far
    banner,         \* "none" | "found" | "degraded": the probe's message
    probe,          \* "not_run" | "found" | "none"
    facesUsed,      \* a load/run/boxes/release call was made on faces_ctx
    anyErr,         \* some provider call has reported an error
    imgErr,         \* some provider call on the current image did
    loadSeq,        \* images given to a full-image load, in call order
    steps           \* provider calls and prints of the current image

config == <<max_detection, score_thr, iou_thr, engine, norm, face_detect>>
args == <<optsLeft, argModel, nimages>>
sessions == <<heap, pose_ctx, faces_ctx, poseParams, facesParams>>
image == <<i, w, h, num_boxes, boxes, j, roi>>
ghost == <<banner, probe, facesUsed, anyErr, imgErr, loadSeq, steps>>
output == <<exitCode, stderr, stdout>>
vars == <<pc, args, config, sessions, image, ghost, output>>

\* ---------------------------------------------------------------- helpers
MAX(a, b) == IF a > b THEN a ELSE b
MIN(a, b) == IF a < b THEN a ELSE b
\* Variant: the upper limit is not applied.
CLAMP_NoUpperBound(x, lo, hi) == MAX(x, lo)

CLAMP(x, lo, hi) == MIN(MAX(x, lo), hi)

NoParams == [n \in {} |-> 0]
\* vaal_parameter_seti / vaal_parameter_setf
SetParam(params, name, value) ==
    [n \in (DOMAIN params) \cup {name} |-> IF n = name THEN value ELSE params[n]]

\* The provider's answers for image k: its resolution and its detections.
Width(k) == 10 * k
Height(k) == 20 * k
Detection(k, b) ==
    [xmin |-> b, ymin |-> b + 1, xmax |-> b + 4, ymax |-> b + 5, score |-> 9 - b]
Indeterminate == {0, 7}

\* roi[0..3] = (int32_t) (box->coord * (float) w or h), coords in tenths
RoiOf(box, width, height) ==
    << (box.xmin * width) \div 10, (box.ymin * height) \div 10,
       (box.xmax * width) \div 10, (box.ymax * height) \div 10 >>

Step(op, b) == [op |-> op, box |-> b]

\* One printf to stdout: the usage or version text, a per-box line of the
\* two-stage pipeline (index, score) or a record of the single-stage one.
Line(kind, img, index, score) ==
    [kind |-> kind, img |-> img, index |-> index, score |-> score]

\* return code after fprintf(stderr, msg)
Return(code, msg) ==
    /\ pc' = "exit"
    /\ exitCode' = code
    /\ stderr' = msg

Init ==
    /\ pc = "getopt"
    /\ optsLeft \in 0 .. MaxOpts
    /\ argModel \in BOOLEAN
    /\ nimages \in 0 .. MaxImages
    /\ (~argModel => nimages = 0)
    /\ max_detection = DefaultMaxDetection
    /\ score_thr = DefaultScoreThr
    /\ iou_thr = DefaultIouThr
    /\ engine = "npu"
    /\ norm = "raw"
    /\ face_detect = TRUE
    /\ heap = [boxes |-> "unalloc", orientations |-> "unalloc", roi |-> "unalloc"]
    /\ pose_ctx = "null"
    /\ faces_ctx = "null"
    /\ poseParams = NoParams
    /\ facesParams = NoParams
    /\ i = 0
    /\ w = 0
    /\ h = 0
    /\ num_boxes = 0
    /\ boxes = << >>
    /\ j = 0
    /\ roi = <<0, 0, 0, 0>>
    /\ exitCode = -1
    /\ stderr = "none"
    /\ stdout = << >>
    /\ banner = "none"
    /\ probe = "not_run"
    /\ facesUsed = FALSE
    /\ anyErr = FALSE
    /\ imgErr = FALSE
    /\ loadSeq = << >>
    /\ steps = << >>

\* ------------------------------------------------- command-line parsing
\* One iteration of the getopt_long loop that returns an option.
Parsing ==
    /\ pc = "getopt"
    /\ optsLeft > 0
    /\ optsLeft' = optsLeft - 1
    /\ UNCHANGED <<argModel, nimages, sessions, image, ghost>>

\* case 'h': printf(USAGE); return EXIT_SUCCESS
OptHelp ==
    /\ Parsing
    /\ stdout' = Append(stdout, Line("usage", 0, -1, -1))
    /\ Return(0, "none")
    /\ UNCHANGED config

\* case 'v': printf(version); return EXIT_SUCCESS
OptVersion ==
    /\ Parsing
    /\ stdout' = Append(stdout, Line("version", 0, -1, -1))
    /\ Return(0, "none")
    /\ UNCHANGED config

\* case 'm': max_detection = MAX(atoi(optarg), 1), with atoi(optarg) = a
SetMaxDetection(a) ==
    /\ Parsing
    /\ max_detection' = MAX(a, 1)
    /\ UNCHANGED <<pc, output, score_thr, iou_thr, engine, norm, face_detect>>

OptMaxDetection == \E a \in CountArgs : SetMaxDetection(a)

\* case 't': score_thr = CLAMP(atof(optarg), 0.0f, 1.0f), with atof(optarg) = a tenths
SetThreshold(a) ==
    /\ Parsing
    /\ score_thr' = CLAMP(a, 0, 10)
    /\ UNCHANGED <<pc, output, max_detection, iou_thr, engine, norm, face_detect>>

OptThreshold == \E a \in ThrArgs : SetThreshold(a)

\* case 'u': iou_thr = CLAMP(atof(optarg), 0.0f, 1.0f), with atof(optarg) = a tenths
SetIou(a) ==
    /\ Parsing
    /\ iou_thr' = CLAMP(a, 0, 10)
    /\ UNCHANGED <<pc, output, max_detection, score_thr, engine, norm, face_detect>>

OptIou == \E a \in ThrArgs : SetIou(a)

\* case 'n': the strcmp chain over the five names, else the failure exit
OptNorm ==
    /\ Parsing
    /\ UNCHANGED stdout
    /\ \E a \in NormArgs :
        IF a \in NormNames
        THEN /\ norm' = a
             /\ UNCHANGED <<pc, exitCode, stderr>>
        ELSE /\ Return(1, "unsupported image normalization method")
             /\ UNCHANGED norm
    /\ UNCHANGED <<max_detection, score_thr, iou_thr, engine, face_detect>>

\* case 'e': engine = optarg
OptEngine ==
    /\ Parsing
    /\ \E a \in EngineArgs : engine' = a
    /\ UNCHANGED <<pc, output, max_detection, score_thr, iou_thr, norm, face_detect>>

\* case 'd': face_detect = false
OptNoDetect ==
    /\ Parsing
    /\ face_detect' = FALSE
    /\ UNCHANGED <<pc, output, max_detection, score_thr, iou_thr, engine, norm>>

\* default: an option getopt_long does not know, or one missing its argument
OptInvalid ==
    /\ Parsing
    /\ Return(1, "invalid parameter")
    /\ UNCHANGED <<config, stdout>>

\* getopt_long returns -1
GetoptEnd ==
    /\ pc = "getopt"
    /\ optsLeft = 0
    /\ pc' = "check_model"
    /\ UNCHANGED <<args, config, sessions, image, ghost, output>>

\* Variant: the session and the buffers are created before argv[optind] is tested.
CheckModelAfterCreate ==
    /\ pc = "check_model"
    /\ heap' = [boxes |-> "alloc", orientations |-> "alloc", roi |-> "alloc"]
    /\ pose_ctx' = "live"
    /\ IF ~argModel
       THEN Return(1, "missing required model")
       ELSE /\ pc' = "load_model"
            /\ UNCHANGED <<exitCode, stderr>>
    /\ UNCHANGED <<args, config, faces_ctx, poseParams, facesParams, image, ghost, stdout>>

\* if (argv[optind] == NULL) return EXIT_FAILURE; model = argv[optind++]
CheckModel ==
    /\ pc = "check_model"
    /\ IF ~argModel
       THEN Return(1, "missing required model")
       ELSE /\ pc' = "acquire"
            /\ UNCHANGED <<exitCode, stderr>>
    /\ UNCHANGED <<args, config, sessions, image, ghost, stdout>>

\* ------------------------------------------------------------- start-up
\* calloc of boxes, orientations and roi; vaal_context_create(engine)
Acquire ==
    /\ pc = "acquire"
    /\ heap' = [boxes |-> "alloc", orientations |-> "alloc", roi |-> "alloc"]
    /\ pose_ctx' = "live"
    /\ pc' = "load_model"
    /\ UNCHANGED <<args, config, faces_ctx, poseParams, facesParams, image, ghost, output>>

\* Variant: the score threshold is set on the pose session as well.
LoadModelFileSetsThreshold ==
    /\ pc = "load_model"
    /\ \E ok \in BOOLEAN :
        IF ok
        THEN /\ poseParams' = SetParam(SetParam(poseParams, "normalization", norm),
                                       "score_threshold", score_thr)
             /\ pc' = "probe"
             /\ UNCHANGED <<exitCode, stderr, anyErr>>
        ELSE /\ Return(1, "failed to load model")
             /\ anyErr' = TRUE
             /\ UNCHANGED poseParams
    /\ UNCHANGED <<args, config, heap, pose_ctx, faces_ctx, facesParams, image,
                   banner, probe, facesUsed, imgErr, loadSeq, steps, stdout>>

\* vaal_load_model_file(pose_ctx, model), then the pose normalization
LoadModelFile ==
    /\ pc = "load_model"
    /\ \E ok \in BOOLEAN :
        IF ok
        THEN /\ poseParams' = SetParam(poseParams, "normalization", norm)
             /\ pc' = "probe"
             /\ UNCHANGED <<exitCode, stderr, anyErr>>
        ELSE /\ Return(1, "failed to load model")
             /\ anyErr' = TRUE
             /\ UNCHANGED poseParams
    /\ UNCHANGED <<args, config, heap, pose_ctx, faces_ctx, facesParams, image,
                   banner, probe, facesUsed, imgErr, loadSeq, steps, stdout>>

\* Variant: the face-detection session is given the --norm value.
FacesSetupUserNorm ==
    SetParam(SetParam(SetParam(SetParam(facesParams,
        "max_detection", max_detection),
        "score_threshold", score_thr),
        "iou_threshold", iou_thr),
        "normalization", norm)

\* The parameters the face-detection session is given once it is found.
FacesSetup ==
    SetParam(SetParam(SetParam(SetParam(facesParams,
        "max_detection", max_detection),
        "score_threshold", score_thr),
        "iou_threshold", iou_thr),
        "normalization", "raw")

\* Variant: a probe that finds nothing leaves face_detect set.
ProbeFacesKeepsFlag ==
    /\ pc = "probe"
    /\ IF face_detect
       THEN \E found \in BOOLEAN :
            IF found
            THEN /\ faces_ctx' = "live"
                 /\ facesParams' = FacesSetup
                 /\ banner' = "found"
                 /\ probe' = "found"
            ELSE /\ banner' = "degraded"
                 /\ probe' = "none"
                 /\ UNCHANGED <<faces_ctx, facesParams>>
       ELSE UNCHANGED <<faces_ctx, facesParams, banner, probe>>
    /\ pc' = "loop"
    /\ i' = 1
    /\ UNCHANGED <<args, config, heap, pose_ctx, poseParams, w, h, num_boxes, boxes, j, roi,
                   facesUsed, anyErr, imgErr, loadSeq, steps, output>>

\* if (face_detect) faces_ctx = vaal_model_probe(engine, model_type_face_detection)
ProbeFaces ==
    /\ pc = "probe"
    /\ IF face_detect
       THEN \E found \in BOOLEAN :
            IF found
            THEN /\ faces_ctx' = "live"
                 /\ facesParams' = FacesSetup
                 /\ banner' = "found"
                 /\ probe' = "found"
                 /\ UNCHANGED face_detect
            ELSE /\ face_detect' = FALSE
                 /\ banner' = "degraded"
                 /\ probe' = "none"
                 /\ UNCHANGED <<faces_ctx, facesParams>>
       ELSE UNCHANGED <<face_detect, faces_ctx, facesParams, banner, probe>>
    /\ pc' = "loop"
    /\ i' = 1
    /\ UNCHANGED <<args, max_detection, score_thr, iou_thr, engine, norm, heap, pose_ctx,
                   poseParams, w, h, num_boxes, boxes, j, roi,
                   facesUsed, anyErr, imgErr, loadSeq, steps, output>>

\* for (int i = optind; i < argc; i++): the test, and the choice of pipeline
NextImage ==
    /\ pc = "loop"
    /\ IF i <= nimages
       THEN pc' = IF face_detect THEN "f_res" ELSE "s_load"
       ELSE pc' = "release"
    /\ imgErr' = FALSE
    /\ steps' = << >>
    /\ UNCHANGED <<args, config, sessions, image, banner, probe, facesUsed, anyErr,
                   loadSeq, output>>

\* ----------------------------------------------------- two-stage pipeline
\* int32_t w, h = 0; err = vaal_image_file_resolution(image, &w, &h);
\* err is overwritten by the next call; w was never initialised.
FaceResolution ==
    /\ pc = "f_res"
    /\ \E ok \in BOOLEAN :
        IF ok
        THEN /\ w' = Width(i)
             /\ h' = Height(i)
             /\ UNCHANGED <<anyErr, imgErr>>
        ELSE /\ w' \in Indeterminate
             /\ h' = 0
             /\ anyErr' = TRUE
             /\ imgErr' = TRUE
    /\ steps' = Append(steps, Step("resolution", -1))
    /\ pc' = "f_load"
    /\ UNCHANGED <<args, config, sessions, i, num_boxes, boxes, j, roi,
                   banner, probe, facesUsed, loadSeq, output>>

\* err = vaal_load_image_file(faces_ctx, NULL, image, NULL, 0); if (err) return
FaceLoad ==
    /\ pc = "f_load"
    /\ facesUsed' = TRUE
    /\ loadSeq' = Append(loadSeq, i)
    /\ steps' = Append(steps, Step("faces_load", -1))
    /\ \E ok \in BOOLEAN :
        IF ok
        THEN /\ pc' = "f_run"
             /\ UNCHANGED <<anyErr, imgErr, exitCode, stderr>>
        ELSE /\ Return(1, "failed to load image")
             /\ anyErr' = TRUE
             /\ imgErr' = TRUE
    /\ UNCHANGED <<args, config, sessions, image, banner, probe, stdout>>

\* err = vaal_run_model(faces_ctx); err is overwritten by the next call
FaceRun ==
    /\ pc = "f_run"
    /\ facesUsed' = TRUE
    /\ steps' = Append(steps, Step("faces_run", -1))
    /\ \E ok \in BOOLEAN :
        IF ok
        THEN UNCHANGED <<anyErr, imgErr>>
        ELSE /\ anyErr' = TRUE
             /\ imgErr' = TRUE
    /\ pc' = "f_boxes"
    /\ UNCHANGED <<args, config, sessions, image, banner, probe, loadSeq, output>>

\* err = vaal_boxes(faces_ctx, boxes, max_detection, &num_boxes); err is never read.
\* The provider fills at most max_detection entries; on an error it leaves the
\* buffer alone and either leaves num_boxes alone or clears it.
\* Variant: the capacity passed is the default, not the configured count.
BoxesCapacityDefault == DefaultMaxDetection

BoxesCapacity == max_detection

FaceBoxes ==
    /\ pc = "f_boxes"
    /\ facesUsed' = TRUE
    /\ steps' = Append(steps, Step("faces_boxes", -1))
    /\ \E ok \in BOOLEAN :
        IF ok
        THEN /\ \E n \in 0 .. MIN(BoxesCapacity, MaxFaces) :
                /\ num_boxes' = n
                /\ boxes' = [b \in 1 .. n |-> Detection(i, b - 1)]
             /\ UNCHANGED <<anyErr, imgErr>>
        ELSE /\ num_boxes' \in {num_boxes, 0}
             /\ UNCHANGED boxes
             /\ anyErr' = TRUE
             /\ imgErr' = TRUE
    /\ j' = 0
    /\ pc' = "box_loop"
    /\ UNCHANGED <<args, config, sessions, i, w, h, roi, banner, probe, loadSeq, output>>

\* for (size_t j = 0; j < num_boxes; j++): the test
NextBox ==
    /\ pc = "box_loop"
    /\ IF j < num_boxes
       THEN /\ pc' = "roi"
            /\ UNCHANGED i
       ELSE /\ pc' = "loop"
            /\ i' = i + 1
    /\ UNCHANGED <<args, config, sessions, w, h, num_boxes, boxes, j, roi, ghost, output>>

\* roi[0..3] from boxes[j] and the image's width and height
ComputeRoi ==
    /\ pc = "roi"
    /\ roi' = RoiOf(boxes[j + 1], w, h)
    /\ steps' = Append(steps, Step("roi", j))
    /\ pc' = "p_load"
    /\ UNCHANGED <<args, config, sessions, i, w, h, num_boxes, boxes, j,
                   banner, probe, facesUsed, anyErr, imgErr, loadSeq, output>>

\* err = vaal_load_image_file(pose_ctx, NULL, image, roi, 0); if (err) return
PoseLoadCrop ==
    /\ pc = "p_load"
    /\ steps' = Append(steps, Step("pose_load", j))
    /\ \E ok \in BOOLEAN :
        IF ok
        THEN /\ pc' = "p_run"
             /\ UNCHANGED <<anyErr, imgErr, exitCode, stderr>>
        ELSE /\ Return(1, "failed to load image")
             /\ anyErr' = TRUE
             /\ imgErr' = TRUE
    /\ UNCHANGED <<args, config, sessions, image, banner, probe, facesUsed, loadSeq, stdout>>

\* err = vaal_run_model(pose_ctx); if (err) return
PoseRun ==
    /\ pc = "p_run"
    /\ steps' = Append(steps, Step("pose_run", j))
    /\ \E ok \in BOOLEAN :
        IF ok
        THEN /\ pc' = "p_euler"
             /\ UNCHANGED <<anyErr, imgErr, exitCode, stderr>>
        ELSE /\ Return(1, "failed to run model")
             /\ anyErr' = TRUE
             /\ imgErr' = TRUE
    /\ UNCHANGED <<args, config, sessions, image, banner, probe, facesUsed, loadSeq, stdout>>

\* if (vaal_euler(pose_ctx, orientations, &num_orientations)) return 1
PoseEuler ==
    /\ pc = "p_euler"
    /\ steps' = Append(steps, Step("pose_euler", j))
    /\ \E ok \in BOOLEAN :
        IF ok
        THEN /\ pc' = "p_print"
             /\ UNCHANGED <<anyErr, imgErr, exitCode, stderr>>
        ELSE /\ Return(1, "Head pose decode failed")
             /\ anyErr' = TRUE
             /\ imgErr' = TRUE
    /\ UNCHANGED <<args, config, sessions, image, banner, probe, facesUsed, loadSeq, stdout>>

\* printf of line j, then j++
PrintBox ==
    /\ pc = "p_print"
    /\ stdout' = Append(stdout, Line("box", i, j, boxes[j + 1].score))
    /\ steps' = Append(steps, Step("print", j))
    /\ j' = j + 1
    /\ pc' = "box_loop"
    /\ UNCHANGED <<args, config, sessions, i, w, h, num_boxes, boxes, roi,
                   banner, probe, facesUsed, anyErr, imgErr, loadSeq, exitCode, stderr>>

\* ---------------------------------------------------- single-stage pipeline
\* Variant: a failed load is reported and the loop goes on to the next image.
SingleLoadSkipsFailed ==
    /\ pc = "s_load"
    /\ loadSeq' = Append(loadSeq, i)
    /\ steps' = Append(steps, Step("pose_load", -1))
    /\ \E ok \in BOOLEAN :
        IF ok
        THEN /\ pc' = "s_run"
             /\ UNCHANGED <<anyErr, imgErr, stderr, i>>
        ELSE /\ pc' = "loop"
             /\ i' = i + 1
             /\ stderr' = "failed to load image"
             /\ anyErr' = TRUE
             /\ imgErr' = TRUE
    /\ UNCHANGED <<args, config, sessions, w, h, num_boxes, boxes, j, roi,
                   banner, probe, facesUsed, exitCode, stdout>>

\* err = vaal_load_image_file(pose_ctx, NULL, image, NULL, 0); if (err) return
SingleLoad ==
    /\ pc = "s_load"
    /\ loadSeq' = Append(loadSeq, i)
    /\ steps' = Append(steps, Step("pose_load", -1))
    /\ \E ok \in BOOLEAN :
        IF ok
        THEN /\ pc' = "s_run"
             /\ UNCHANGED <<anyErr, imgErr, exitCode, stderr>>
        ELSE /\ Return(1, "failed to load image")
             /\ anyErr' = TRUE
             /\ imgErr' = TRUE
    /\ UNCHANGED <<args, config, sessions, image, banner, probe, facesUsed, stdout>>

\* err = vaal_run_model(pose_ctx); if (err) return
SingleRun ==
    /\ pc = "s_run"
    /\ steps' = Append(steps, Step("pose_run", -1))
    /\ \E ok \in BOOLEAN :
        IF ok
        THEN /\ pc' = "s_euler"
             /\ UNCHANGED <<anyErr, imgErr, exitCode, stderr>>
        ELSE /\ Return(1, "failed to run model")
             /\ anyErr' = TRUE
             /\ imgErr' = TRUE
    /\ UNCHANGED <<args, config, sessions, image, banner, probe, facesUsed, loadSeq, stdout>>

\* if (vaal_euler(pose_ctx, orientations, &num_orientations)) return 1
SingleEuler ==
    /\ pc = "s_euler"
    /\ steps' = Append(steps, Step("pose_euler", -1))
    /\ \E ok \in BOOLEAN :
        IF ok
        THEN /\ pc' = "s_print"
             /\ UNCHANGED <<anyErr, imgErr, exitCode, stderr>>
        ELSE /\ Return(1, "Head pose decode failed")
             /\ anyErr' = TRUE
             /\ imgErr' = TRUE
    /\ UNCHANGED <<args, config, sessions, image, banner, probe, facesUsed, loadSeq, stdout>>

\* printf of the timing and orientation record, then i++
SinglePrint ==
    /\ pc = "s_print"
    /\ stdout' = Append(stdout, Line("single", i, -1, -1))
    /\ steps' = Append(steps, Step("print", -1))
    /\ i' = i + 1
    /\ pc' = "loop"
    /\ UNCHANGED <<args, config, sessions, w, h, num_boxes, boxes, j, roi,
                   banner, probe, facesUsed, anyErr, imgErr, loadSeq, exitCode, stderr>>

\* --------------------------------------------------------------- shutdown
\* if (face_detect) vaal_context_release(faces_ctx);
\* vaal_context_release(pose_ctx); free(boxes); free(orientations); free(roi);
Release ==
    /\ pc = "release"
    /\ IF face_detect
       THEN /\ faces_ctx' = "released"
            /\ facesUsed' = TRUE
       ELSE UNCHANGED <<faces_ctx, facesUsed>>
    /\ pose_ctx' = "released"
    /\ heap' = [boxes |-> "freed", orientations |-> "freed", roi |-> "freed"]
    /\ Return(0, "none")
    /\ UNCHANGED <<args, config, poseParams, facesParams, image,
                   banner, probe, anyErr, imgErr, loadSeq, steps, stdout>>

Next ==
    \/ OptHelp \/ OptVersion \/ OptMaxDetection \/ OptThreshold \/ OptIou
    \/ OptNorm \/ OptEngine \/ OptNoDetect \/ OptInvalid \/ GetoptEnd
    \/ CheckModel \/ Acquire \/ LoadModelFile \/ ProbeFaces \/ NextImage
    \/ FaceResolution \/ FaceLoad \/ FaceRun \/ FaceBoxes \/ NextBox
    \/ ComputeRoi \/ PoseLoadCrop \/ PoseRun \/ PoseEuler \/ PrintBox
    \/ SingleLoad \/ SingleRun \/ SingleEuler \/ SinglePrint \/ Release

Spec == Init /\ [][Next]_vars

TypeOK ==
    /\ exitCode \in {-1, 0, 1}
    /\ (pc = "exit") <=> (exitCode # -1)

\* ================================================================ claims
Exited == pc = "exit"
Acquired == heap.boxes # "unalloc"
ResultLines == SelectSeq(stdout, LAMBDA l : l.kind \in {"box", "single"})
Helped == \E k \in DOMAIN stdout : stdout[k].kind \in {"usage", "version"}
IsPrefix(s, t) == Len(s) <= Len(t) /\ \A k \in 1 .. Len(s) : s[k] = t[k]
LastStep == steps[Len(steps)]
StartupPcs == {"getopt", "check_model", "acquire", "load_model", "probe"}

\* C1: on every exit taken after the buffers and sessions were acquired, the
\* pose session, the face-detection session (if the probe returned one) and
\* the three buffers have been released.
C1_ReleasedOnEveryExit ==
    (Exited /\ Acquired) =>
        /\ pose_ctx = "released"
        /\ faces_ctx # "live"
        /\ heap = [boxes |-> "freed", orientations |-> "freed", roi |-> "freed"]

\* C2: whenever a provider call reports an error the run is aborted with
\* exit code 1 before any later stage runs, so exit code 0 means that every
\* provider call succeeded.
C2_EveryErrorAborts ==
    anyErr => (Exited /\ exitCode = 1)

\* C3: a run given a model path but no image path ends with exit code 1.
C3_NoImageIsUsageError ==
    (Exited /\ argModel /\ nimages = 0 /\ ~Helped) => exitCode = 1

\* C4: on a usage error (unknown --norm value, unknown flag, missing model)
\* the process exits with failure status, no session was created or probed
\* for, and no image was loaded.
UsageErrors ==
    {"unsupported image normalization method", "invalid parameter", "missing required model"}

C4_UsageErrorBeforeSessions ==
    /\ (stderr \in UsageErrors) =>
        /\ Exited /\ exitCode = 1
        /\ pose_ctx = "null" /\ faces_ctx = "null" /\ probe = "not_run"
        /\ ~Acquired /\ ~facesUsed
        /\ loadSeq = << >> /\ steps = << >> /\ stdout = << >>
    /\ (Exited /\ ~argModel /\ ~Helped) => stderr \in UsageErrors

C4_Witness ==
    /\ stderr = "unsupported image normalization method"
    /\ argModel /\ nimages = MaxImages /\ optsLeft > 0

\* C5: images are loaded in input order, each once; when the load of image k
\* fails the process exits with failure status, no image after k is loaded,
\* and result lines exist only for images before k.
InOrder(q) == q = [k \in 1 .. Len(q) |-> k]

LinesOrdered ==
    \A a, b \in DOMAIN ResultLines :
        a < b => \/ ResultLines[a].img < ResultLines[b].img
                 \/ /\ ResultLines[a].img = ResultLines[b].img
                    /\ ResultLines[a].index < ResultLines[b].index

LoadFailed == stderr = "failed to load image"

FailedAtCrop == LastStep.op = "pose_load" /\ LastStep.box >= 0

C5_FirstLoadFailureEndsRun ==
    /\ InOrder(loadSeq)
    /\ LinesOrdered
    /\ LoadFailed =>
        /\ Exited /\ exitCode = 1
        /\ Len(loadSeq) = i /\ i <= nimages
        /\ \A k \in DOMAIN ResultLines : ResultLines[k].img < i

\* C5 as amended: as above, except that when the failing load is the pose
\* session's cropped load for box b of image k, the lines of boxes 0..b-1 of
\* image k have been printed too.
C5_LoadFailureEndsRunAfterPartialImage ==
    /\ InOrder(loadSeq)
    /\ LinesOrdered
    /\ LoadFailed =>
        /\ Exited /\ exitCode = 1
        /\ Len(loadSeq) = i /\ i <= nimages
        /\ \A k \in DOMAIN ResultLines :
            \/ ResultLines[k].img < i
            \/ /\ ResultLines[k].img = i
               /\ FailedAtCrop
               /\ ResultLines[k].kind = "box"
               /\ ResultLines[k].index < LastStep.box

C5_Witness ==
    /\ LoadFailed /\ FailedAtCrop
    /\ i = 1 /\ nimages = 2
    /\ LastStep.box = 1 /\ Len(ResultLines) = 1

\* C6: when face detection is requested and the probe returns no session, the
\* diagnostic is printed, the mode flag is off before the first image, every
\* image takes the single-stage path with one record each, the absent
\* face-detection session is never used, and the run exits 0 when every pose
\* call succeeds.
SingleSteps ==
    << Step("pose_load", -1), Step("pose_run", -1), Step("pose_euler", -1),
       Step("print", -1) >>

C6_ProbeMissDegrades ==
    (probe = "none") =>
        /\ banner = "degraded"
        /\ ~face_detect
        /\ faces_ctx = "null" /\ ~facesUsed /\ facesParams = NoParams
        /\ IsPrefix(steps, SingleSteps)
        /\ stdout = [k \in 1 .. Len(stdout) |-> Line("single", k, -1, -1)]
        /\ (pc = "loop" => Len(stdout) = i - 1)
        /\ (Exited /\ ~anyErr) =>
            (exitCode = 0 /\ Len(stdout) = nimages /\ pose_ctx = "released")

C6_Witness ==
    /\ probe = "none" /\ Exited /\ exitCode = 0
    /\ nimages = MaxImages /\ Len(stdout) = MaxImages

\* C7: the effective thresholds are min(max(value, 0), 1) of the value given,
\* the effective max_detection is max(value, 1), and so the thresholds are in
\* [0, 1] and max_detection >= 1 whenever a session or the buffers exist.
Clamp01(a) == IF a < 0 THEN 0 ELSE IF a > 10 THEN 10 ELSE a
Floor1(a) == IF a <= 0 THEN 1 ELSE a

C7_ConfigInRange ==
    (pose_ctx # "null" \/ faces_ctx # "null" \/ Acquired) =>
        /\ score_thr \in 0 .. 10
        /\ iou_thr \in 0 .. 10
        /\ max_detection >= 1

C7_ParseClamps ==
    /\ \A a \in ThrArgs :
        /\ SetThreshold(a) => score_thr' = Clamp01(a)
        /\ SetIou(a) => iou_thr' = Clamp01(a)
    /\ \A a \in CountArgs : SetMaxDetection(a) => max_detection' = Floor1(a)

C7_EffectiveConfigIsClamped == [] C7_ConfigInRange /\ [][C7_ParseClamps]_vars

C7_Witness ==
    /\ score_thr = 10 /\ max_detection = 1
    /\ faces_ctx = "live" /\ facesParams["score_threshold"] = 10

\* C8: in two-stage mode the pose session's normalization is raw whatever
\* value --norm was given.
TwoStage == face_detect /\ faces_ctx = "live"

C8_PoseNormForcedRaw ==
    (TwoStage /\ "normalization" \in DOMAIN poseParams) =>
        poseParams["normalization"] = "raw"

\* C8 as amended: in two-stage mode it is the face-detection session whose
\* normalization is raw whatever --norm was given; the pose session's
\* normalization is the --norm value.
C8_FacesNormRawPoseNormUser ==
    TwoStage =>
        /\ facesParams["normalization"] = "raw"
        /\ poseParams["normalization"] = norm

C8_Witness ==
    /\ TwoStage /\ pc = "p_run"
    /\ norm = "signed" /\ poseParams["normalization"] = "signed"

\* C9: in two-stage mode, for an image whose calls all succeed and for which
\* the detector returns n boxes, n <= max_detection, exactly the lines 0..n-1
\* are printed in the detector's order, and per box the steps are ROI, cropped
\* load, run, decode, print, box j+1 starting only after line j.
FaceSteps ==
    << Step("resolution", -1), Step("faces_load", -1), Step("faces_run", -1),
       Step("faces_boxes", -1) >>

RECURSIVE BoxSteps(_)
BoxSteps(n) ==
    IF n = 0 THEN << >>
    ELSE BoxSteps(n - 1) \o
         << Step("roi", n - 1), Step("pose_load", n - 1), Step("pose_run", n - 1),
            Step("pose_euler", n - 1), Step("print", n - 1) >>

ImageLines(k) == SelectSeq(stdout, LAMBDA l : l.kind = "box" /\ l.img = k)

C9_TwoStagePerBoxOrder ==
    (pc \in {"box_loop", "roi", "p_load", "p_run", "p_euler", "p_print"} /\ ~imgErr) =>
        /\ num_boxes <= max_detection
        /\ j <= num_boxes
        /\ IsPrefix(steps, FaceSteps \o BoxSteps(num_boxes))
        /\ ImageLines(i) = [b \in 1 .. j |-> Line("box", i, b - 1, Detection(i, b - 1).score)]
        /\ (pc = "p_load" => roi = RoiOf(Detection(i, j), Width(i), Height(i)))
        /\ (pc = "box_loop" /\ j = num_boxes) => steps = FaceSteps \o BoxSteps(num_boxes)

C9_Witness ==
    /\ pc = "box_loop" /\ ~imgErr /\ i = 2
    /\ num_boxes = 2 /\ j = 2 /\ max_detection = 2

\* C10: session parameters are set once, before the first image, and never
\* change afterwards; thresholds and max_detection go to the face-detection
\* session only, whose normalization is raw; the --norm value goes to the
\* pose session only.
FacesExpected ==
    [max_detection |-> max_detection, score_threshold |-> score_thr,
     iou_threshold |-> iou_thr, normalization |-> "raw"]

C10_ParamsPlaced ==
    /\ DOMAIN poseParams \subseteq {"normalization"}
    /\ ("normalization" \in DOMAIN poseParams) => poseParams["normalization"] = norm
    /\ (faces_ctx = "null") => facesParams = NoParams
    /\ (faces_ctx # "null") => facesParams = FacesExpected
    /\ (i >= 1) => "normalization" \in DOMAIN poseParams

C10_ParamsFrozen ==
    (i >= 1) => UNCHANGED <<poseParams, facesParams, config>>

C10_ParamsSetOnceAtStartup == [] C10_ParamsPlaced /\ [][C10_ParamsFrozen]_vars

C10_Witness ==
    /\ Exited /\ exitCode = 0 /\ faces_ctx = "released"
    /\ norm = "imagenet" /\ Len(loadSeq) = MaxImages

====
